---- MODULE Spec2Model ----
(***************************************************************************)
(* Model of the Micro-Epsilon scanCONTROL example: the chain of            *)
(* CDataConversion stages (DataConversion.h), the acquisition hook of      *)
(* CMicroEpsilonToMIL (Micro-EpsilonToMIL.cpp), the profile processors     *)
(* (ProfileProcess.cpp) and the life cycle MosMain gives them.             *)
(*                                                                         *)
(* MIL buffers are modelled as a heap of records indexed by their MIL_ID;  *)
(* an SPData is a record of three MIL_IDs, so that aliasing and ownership  *)
(* are visible.  Pixel values are integers: 16-bit unsigned buffers keep   *)
(* their width, 32-bit float buffers round as a float does, and the        *)
(* calibrations are integer stand-ins for the fractional ones of CONVPCAL. *)
(***************************************************************************)
EXTENDS Integers, Sequences, FiniteSets, TLC

VARIABLES
    heap,                               \* MIL buffers, indexed by MIL_ID
    m_pDataConversion,                  \* CMicroEpsilonToMIL's chain (<<>> is the null pointer)
    m_pProcessProfileDataConversion,    \* CProfileProcess's chain (<<>> is the null pointer)
    trace,                              \* one record per stage transform of the last conversion
    milErr,                             \* number of MIL calls that were given M_NULL
    dlog,                               \* destructor events, in order
    pc,                                 \* position in MosMain (or in the stage harness)
    FlipPos, FlipDist,                  \* digitizer features read by BuildDigitizerDataConversion
    PCal,                               \* CONVPCAL[CameraModelIndex]
    m_SizeX, m_SizeY,                   \* ProfileSize, NbProfiles
    MilGrabBuffers,                     \* the two grab buffers of MosMain
    rawIn,                              \* the raw X and Z the acquisition delivered last
    Data,                               \* the SPData handed to the chain
    ConvertedData,                      \* the SPData the last conversion returned
    nHooks,                             \* hook invocations (or harness Convert calls) so far
    m_NbFramesProcessed,                \* CProfileDepthMapProcess
    m_ConvertedY,                       \* CProfileDepthMapProcess
    cloudPut,                           \* arguments of the last M3dmapPut
    nbPuts,                             \* number of M3dmapPut calls
    graList,                            \* graphic list of CProfileSingleProcess
    procLog,                            \* steps of the last Process call, in order
    hookFrame                           \* the frame of the hook invocation in progress (<<>>: none)

vars == << heap, m_pDataConversion, m_pProcessProfileDataConversion, trace, milErr,
           dlog, pc, FlipPos, FlipDist, PCal, m_SizeX, m_SizeY, MilGrabBuffers,
           rawIn, Data, ConvertedData, nHooks, m_NbFramesProcessed, m_ConvertedY,
           cloudPut, nbPuts, graList, procLog, hookFrame >>

(***************************************************************************)
(* Bounds of the model.                                                    *)
(***************************************************************************)
\* Points per profile, as GetContainerResolution reports it.
ContainerResolution == 4
\* Profiles per grab in the multiple profiles mode (100 in the program).
NB_PROFILES_PER_GRAB == 2
\* Frames delivered between M_START and M_STOP.
MaxFrames == 2
\* Longest chain the stage harness builds.
MaxChainLen == 3
\* Convert calls the stage harness makes on one chain.
MaxCalls == 2

(***************************************************************************)
(* Program constants.                                                      *)
(***************************************************************************)
M_NULL == 0
INVALID_VALUE == 0
MaxU16 == 65535
\* What M_NOT_EQUAL_CONST writes for "true" in an 8-bit unsigned buffer.
MaskTrue == 255
\* Stand-in for the M_MAX of a 32-bit float buffer: larger than every value
\* a calibration of the model produces.
FloatMax == 2147483647

NullSPData == [MilX |-> M_NULL, MilZ |-> M_NULL, MilValidMask |-> M_NULL]

NullPCal == [WorldX |-> 0, WorldZ |-> 0, GrayLevelSX |-> 0, GrayLevelSZ |-> 0]

\* Integer stand-ins for the rows of CONVPCAL: the identity, a zero scale,
\* and a calibration whose two axes differ.
PCals ==
    { [WorldX |-> 0,  WorldZ |-> 0,  GrayLevelSX |-> 1, GrayLevelSZ |-> 1],
      [WorldX |-> -7, WorldZ |-> 9,  GrayLevelSX |-> 0, GrayLevelSZ |-> 0],
      [WorldX |-> 5,  WorldZ |-> -3, GrayLevelSX |-> 2, GrayLevelSZ |-> 3] }

(***************************************************************************)
(* Values in a buffer of a given type.                                     *)
(***************************************************************************)
RECURSIVE F32Quantum(_, _)
F32Quantum(a, q) == IF a < 16777216 * q THEN q ELSE F32Quantum(a, 2 * q)

\* Rounding of an integer to the nearest 32-bit float (ties to even).
F32(v) ==
    LET a  == IF v < 0 THEN -v ELSE v
        q  == F32Quantum(a, 1)
        lo == (a \div q) * q
        r  == a - lo
        up == IF 2 * r > q \/ (2 * r = q /\ (a \div q) % 2 = 1) THEN lo + q ELSE lo
    IN  IF v < 0 THEN -up ELSE up

\* The value a buffer of the type holds after v is written to it.
Store(type, v) ==
    CASE type = "u8"  -> v % 256
      [] type = "u16" -> v % 65536
      [] type = "f32" -> F32(v)

\* MbufInquire(M_MAX).
MaxOf(type) ==
    CASE type = "u8"  -> MaskTrue
      [] type = "u16" -> MaxU16
      [] type = "f32" -> FloatMax

(***************************************************************************)
(* The heap of MIL buffers.  A child buffer is a window on its parent.     *)
(***************************************************************************)
NewBuf(type, sx, sy, owner) ==
    [live |-> TRUE, nfree |-> 0, freedBy |-> <<>>, type |-> type,
     parent |-> M_NULL, offX |-> 0, sx |-> sx, sy |-> sy,
     data |-> [i \in 1..(sx * sy) |-> 0], owner |-> owner]

MbufAlloc2d(h, sx, sy, type, owner) == Append(h, NewBuf(type, sx, sy, owner))

MbufAlloc1d(h, n, type, owner) == Append(h, NewBuf(type, n, 1, owner))

MbufChild2d(h, parent, offX, sx, sy, owner) ==
    Append(h, [NewBuf(h[parent].type, sx, sy, owner)
                  EXCEPT !.parent = parent, !.offX = offX, !.data = <<>>])

MbufFree(h, id, by) ==
    [h EXCEPT ![id].live = FALSE, ![id].nfree = @ + 1, ![id].freedBy = Append(@, by)]

\* The pixels of a buffer, row by row.
Get(h, id) ==
    LET b == h[id]
    IN  IF b.parent = M_NULL
        THEN b.data
        ELSE LET p == h[b.parent]
             IN  [i \in 1..(b.sx * b.sy) |->
                     p.data[((i - 1) \div b.sx) * p.sx + b.offX + ((i - 1) % b.sx) + 1]]

\* Writing the pixels of a buffer; a child writes through to its parent.  MIL
\* works on the area the buffers have in common: of a line of pixels longer
\* than the buffer's line the first pixels are written, and a shorter one
\* leaves the last pixels of the buffer as they were.
Put(h, id, vals) ==
    LET b == h[id]
    IN  IF b.parent = M_NULL
        THEN [h EXCEPT ![id].data =
                 IF Len(vals) = Len(@) THEN vals
                 ELSE IF Len(vals) > Len(@) THEN SubSeq(vals, 1, Len(@))
                 ELSE vals \o SubSeq(@, Len(vals) + 1, Len(@))]
        ELSE LET p == h[b.parent]
             IN  [h EXCEPT ![b.parent].data =
                     [j \in 1..Len(p.data) |->
                         LET r == (j - 1) \div p.sx
                             c == (j - 1) % p.sx
                         IN  IF c >= b.offX /\ c < b.offX + b.sx /\ r < b.sy
                             THEN vals[r * b.sx + (c - b.offX) + 1]
                             ELSE p.data[j]]]

Contents(h, id) == IF id = M_NULL THEN <<>> ELSE Get(h, id)

(***************************************************************************)
(* MIL image arithmetic, on the pixel sequences.                           *)
(***************************************************************************)
\* M_EQUAL_CONST in the place of M_NOT_EQUAL_CONST.
MimArithEqualConst(src, c) ==
    [i \in 1..Len(src) |-> IF src[i] = c THEN MaskTrue ELSE 0]

MimArithNotEqualConst(src, c) ==
    [i \in 1..Len(src) |-> IF src[i] # c THEN MaskTrue ELSE 0]

MimArithMultConst(src, c, type) == [i \in 1..Len(src) |-> Store(type, src[i] * c)]

MimArithAddConst(src, c, type) == [i \in 1..Len(src) |-> Store(type, src[i] + c)]

\* M_SUB_CONST in the place of M_CONST_SUB: src - c.
MimArithSubConst(c, src, type) == [i \in 1..Len(src) |-> Store(type, src[i] - c)]

MimArithConstSub(c, src, type) == [i \in 1..Len(src) |-> Store(type, c - src[i])]

\* M_NOT_EQUAL in the place of M_EQUAL.
MbufClearCondNotEqual(img, value, mask) ==
    [i \in 1..Len(img) |-> IF mask[i] # 0 THEN value ELSE img[i]]

\* MbufClearCond(Image, Value, 0, 0, Mask, M_EQUAL, 0).
MbufClearCond(img, value, mask) ==
    [i \in 1..Len(img) |-> IF mask[i] = 0 THEN value ELSE img[i]]

(***************************************************************************)
(* The stages.  A chain is the sequence of its stages, innermost first:    *)
(* stage n's m_pPrevConv is stage n-1, stage 1 has a null m_pPrevConv and  *)
(* the pointer to the chain points to the last stage.  The machine m      *)
(* threaded through the operators holds what a Convert or a destructor can *)
(* change: the heap, the two chains, the trace, the error count and the    *)
(* destructor log.                                                         *)
(***************************************************************************)
Kinds == {"AddMask", "FlipXVal", "FlipZVal", "ToWorld", "ToFlat", "ApplyInvalid"}

Stage(kind, conv, mask, inv, pcal) ==
    [kind |-> kind, m_ConvertedData |-> conv, m_MilValidMask |-> mask,
     m_InvalidValue |-> inv, m_PCal |-> pcal]

Machine(h, dig, proc) ==
    [heap |-> h, chain |-> [dig |-> dig, proc |-> proc],
     trace |-> <<>>, err |-> 0, dlog |-> <<>>]

\* CDataConversionAddMask's constructor.
NewAddMask(m, c, sx, sy, inv) ==
    LET me == <<c, Len(m.chain[c]) + 1>>
        h1 == MbufAlloc2d(m.heap, sx, sy, "u8", me)
    IN  [m EXCEPT !.heap = h1,
                  !.chain[c] = Append(@, Stage("AddMask", NullSPData, Len(h1), inv, NullPCal))]

\* The Z buffer allocated with its two sizes exchanged.
NewToWorldTransposed(m, c, sx, sy, pcal) ==
    LET me == <<c, Len(m.chain[c]) + 1>>
        h1 == MbufAlloc2d(m.heap, sx, sy, "f32", me)
        h2 == MbufAlloc2d(h1, sy, sx, "f32", me)
        cd == [MilX |-> Len(h1), MilZ |-> Len(h2), MilValidMask |-> M_NULL]
    IN  [m EXCEPT !.heap = h2,
                  !.chain[c] = Append(@, Stage("ToWorld", cd, M_NULL, 0, pcal))]

\* CDataConversionToWorld's constructor.
NewToWorld(m, c, sx, sy, pcal) ==
    LET me == <<c, Len(m.chain[c]) + 1>>
        h1 == MbufAlloc2d(m.heap, sx, sy, "f32", me)
        h2 == MbufAlloc2d(h1, sx, sy, "f32", me)
        cd == [MilX |-> Len(h1), MilZ |-> Len(h2), MilValidMask |-> M_NULL]
    IN  [m EXCEPT !.heap = h2,
                  !.chain[c] = Append(@, Stage("ToWorld", cd, M_NULL, 0, pcal))]

\* CDataConversionToFlat's constructor.
NewToFlat(m, c, sx, sy, type) ==
    LET me == <<c, Len(m.chain[c]) + 1>>
        h1 == MbufAlloc1d(m.heap, sx * sy, type, me)
        h2 == MbufAlloc1d(h1, sx * sy, type, me)
        h3 == MbufAlloc1d(h2, sx * sy, "u8", me)
        cd == [MilX |-> Len(h1), MilZ |-> Len(h2), MilValidMask |-> Len(h3)]
    IN  [m EXCEPT !.heap = h3,
                  !.chain[c] = Append(@, Stage("ToFlat", cd, M_NULL, 0, NullPCal))]

\* The constructors of CDataConversionFlipXVal, FlipZVal and ApplyInvalid.
NewOp(m, c, kind) ==
    [m EXCEPT !.chain[c] = Append(@, Stage(kind, NullSPData, M_NULL, 0, NullPCal))]

\* What a stage's transform leaves in the trace.
Rec(c, n, kind, in, out, hIn, hOut) ==
    [chain |-> c, idx |-> n, kind |-> kind, in |-> in, out |-> out,
     inX |-> Contents(hIn, in.MilX), inZ |-> Contents(hIn, in.MilZ),
     inMask |-> Contents(hIn, in.MilValidMask),
     outX |-> Contents(hOut, out.MilX), outZ |-> Contents(hOut, out.MilZ),
     outMask |-> Contents(hOut, out.MilValidMask),
     nbufIn |-> Len(hIn), nbufOut |-> Len(hOut),
     wrote |-> {id \in 1..Len(hOut) : id > Len(hIn) \/ hIn[id] # hOut[id]},
     inLive |-> \A id \in {in.MilX, in.MilZ, in.MilValidMask} \ {M_NULL} : hIn[id].live]

Done(m, c, n, in, out, h) ==
    [data |-> out,
     m |-> [m EXCEPT !.heap = h,
                     !.trace = Append(@, Rec(c, n, m.chain[c][n].kind, in, out, m.heap, h))]]

\* The value of a singleton set: {F(r) : r \in {e}} computes e once, where a
\* LET would compute it again at each use of r.
The(S) == CHOOSE v \in S : TRUE

RECURSIVE Convert(_, _, _, _)

\* CDataConversion::ConvertPrev.
ConvertPrev(m, c, n, D) ==
    IF n > 1 THEN Convert(m, c, n - 1, D) ELSE [data |-> D, m |-> m]

\* The mask kept where an earlier call had set it.
AddMaskOwnAccumulate(r, c, n) ==
    LET s   == r.m.chain[c][n]
        old == Get(r.m.heap, s.m_MilValidMask)
        new == MimArithNotEqualConst(Get(r.m.heap, r.data.MilZ), s.m_InvalidValue)
        h1  == Put(r.m.heap, s.m_MilValidMask,
                   [i \in 1..Len(new) |-> IF old[i] # 0 THEN old[i] ELSE new[i]])
    IN  Done(r.m, c, n, r.data, [r.data EXCEPT !.MilValidMask = s.m_MilValidMask], h1)

\* No mask given to a frame that has no valid sample.
AddMaskOwnNoneValid(r, c, n) ==
    LET s   == r.m.chain[c][n]
        new == MimArithNotEqualConst(Get(r.m.heap, r.data.MilZ), s.m_InvalidValue)
    IN  IF \A i \in 1..Len(new) : new[i] = 0
        THEN Done(r.m, c, n, r.data, r.data, r.m.heap)
        ELSE Done(r.m, c, n, r.data, [r.data EXCEPT !.MilValidMask = s.m_MilValidMask],
                  Put(r.m.heap, s.m_MilValidMask, new))

\* CDataConversionAddMask::Convert, after ConvertPrev has returned r.
AddMaskOwn(r, c, n) ==
    LET s   == r.m.chain[c][n]
        h1  == Put(r.m.heap, s.m_MilValidMask,
                   MimArithNotEqualConst(Get(r.m.heap, r.data.MilZ), s.m_InvalidValue))
        out == [r.data EXCEPT !.MilValidMask = s.m_MilValidMask]
    IN  Done(r.m, c, n, r.data, out, h1)

\* CDataConversionAddMask::Convert.
AddMaskConvert(m, c, n, D) == The({AddMaskOwn(r, c, n) : r \in {ConvertPrev(m, c, n, D)}})

\* The offset added before the multiplication.
ToWorldAxisAddFirst(src, scale, offset) ==
    MimArithMultConst(MimArithAddConst(src, offset, "f32"), scale, "f32")

\* The two MimArith calls CDataConversionToWorld::Convert makes for one axis.
ToWorldAxis(src, scale, offset) ==
    MimArithAddConst(MimArithMultConst(src, scale, "f32"), offset, "f32")

\* The calibration done in place, in the buffers of the predecessor.
ToWorldOwnInPlace(r, c, n) ==
    LET cal == r.m.chain[c][n].m_PCal
        h1  == Put(r.m.heap, r.data.MilX,
                   ToWorldAxis(Get(r.m.heap, r.data.MilX), cal.GrayLevelSX, cal.WorldX))
        h2  == Put(h1, r.data.MilZ,
                   ToWorldAxis(Get(h1, r.data.MilZ), cal.GrayLevelSZ, cal.WorldZ))
    IN  Done(r.m, c, n, r.data, r.data, h2)

\* CDataConversionToWorld::Convert, after ConvertPrev has returned r.
ToWorldOwn(r, c, n) ==
    LET s   == r.m.chain[c][n]
        cal == s.m_PCal
        own == s.m_ConvertedData
        h1  == Put(r.m.heap, own.MilX,
                   ToWorldAxis(Get(r.m.heap, r.data.MilX), cal.GrayLevelSX, cal.WorldX))
        h2  == Put(h1, own.MilZ,
                   ToWorldAxis(Get(h1, r.data.MilZ), cal.GrayLevelSZ, cal.WorldZ))
        out == [own EXCEPT !.MilValidMask = r.data.MilValidMask]
        m1  == [r.m EXCEPT !.chain[c][n].m_ConvertedData = out]
    IN  Done(m1, c, n, r.data, out, h2)

\* CDataConversionToWorld::Convert.
ToWorldConvert(m, c, n, D) == The({ToWorldOwn(r, c, n) : r \in {ConvertPrev(m, c, n, D)}})

\* MbufGet(Src, host address of Dst): a copy, row by row, into Dst's storage.
\* With Src null MIL reports an error and Dst is left as it was.
MbufGet(mh, src, dst) ==
    IF src = M_NULL
    THEN [heap |-> mh.heap, err |-> mh.err + 1]
    ELSE [heap |-> Put(mh.heap, dst, Get(mh.heap, src)), err |-> mh.err]

\* The three buffers allocated by Convert, at each call.
ToFlatOwnAlloc(r, c, n) ==
    LET size == Len(Get(r.m.heap, r.data.MilX))
        h1   == MbufAlloc1d(r.m.heap, size, "f32", <<c, n>>)
        h2   == MbufAlloc1d(h1, size, "f32", <<c, n>>)
        h3   == MbufAlloc1d(h2, size, "u8", <<c, n>>)
        own  == [MilX |-> Len(h1), MilZ |-> Len(h2), MilValidMask |-> Len(h3)]
        g1   == MbufGet([heap |-> h3, err |-> r.m.err], r.data.MilX, own.MilX)
        g2   == MbufGet(g1, r.data.MilZ, own.MilZ)
        g3   == MbufGet(g2, r.data.MilValidMask, own.MilValidMask)
    IN  Done([r.m EXCEPT !.err = g3.err, !.chain[c][n].m_ConvertedData = own],
             c, n, r.data, own, g3.heap)

\* CDataConversionToFlat::Convert, after ConvertPrev has returned r.
ToFlatOwn(r, c, n) ==
    LET own == r.m.chain[c][n].m_ConvertedData
        g1  == MbufGet([heap |-> r.m.heap, err |-> r.m.err], r.data.MilX, own.MilX)
        g2  == MbufGet(g1, r.data.MilZ, own.MilZ)
        g3  == MbufGet(g2, r.data.MilValidMask, own.MilValidMask)
    IN  Done([r.m EXCEPT !.err = g3.err], c, n, r.data, own, g3.heap)

\* CDataConversionToFlat::Convert.
ToFlatConvert(m, c, n, D) == The({ToFlatOwn(r, c, n) : r \in {ConvertPrev(m, c, n, D)}})

\* CDataConversionFlipXVal::ConvertOp.
FlipXValConvertOp(mh, D) ==
    [heap |-> Put(mh.heap, D.MilX,
                  MimArithConstSub(MaxU16, Get(mh.heap, D.MilX), mh.heap[D.MilX].type)),
     err |-> mh.err]

\* Both channels flipped by the Z flip.
FlipZValConvertOpBoth(mh, D) ==
    FlipXValConvertOp([heap |-> Put(mh.heap, D.MilZ,
                                    MimArithConstSub(MaxU16, Get(mh.heap, D.MilZ),
                                                     mh.heap[D.MilZ].type)),
                       err |-> mh.err], D)

\* CDataConversionFlipZVal::ConvertOp.
FlipZValConvertOp(mh, D) ==
    [heap |-> Put(mh.heap, D.MilZ,
                  MimArithConstSub(MaxU16, Get(mh.heap, D.MilZ), mh.heap[D.MilZ].type)),
     err |-> mh.err]

\* CDataConversionApplyInvalid::ApplyInvalidMask.
ApplyInvalidMask(mh, MilImage, MilMask) ==
    IF MilMask = M_NULL
    THEN [heap |-> mh.heap, err |-> mh.err + 1]
    ELSE [heap |-> Put(mh.heap, MilImage,
                       MbufClearCond(Get(mh.heap, MilImage),
                                     MaxOf(mh.heap[MilImage].type),
                                     Get(mh.heap, MilMask))),
          err |-> mh.err]

\* CDataConversionApplyInvalid::ConvertOp.
ApplyInvalidConvertOp(mh, D) ==
    ApplyInvalidMask(ApplyInvalidMask(mh, D.MilX, D.MilValidMask), D.MilZ, D.MilValidMask)

\* The virtual call of ConvertOp.
ConvertOp(kind, mh, D) ==
    CASE kind = "FlipXVal"     -> FlipXValConvertOp(mh, D)
      [] kind = "FlipZVal"     -> FlipZValConvertOp(mh, D)
      [] kind = "ApplyInvalid" -> ApplyInvalidConvertOp(mh, D)

\* CDataConversionOp::Convert, after ConvertPrev has returned r.
OpOwn(r, c, n) ==
    LET g == ConvertOp(r.m.chain[c][n].kind, [heap |-> r.m.heap, err |-> r.m.err], r.data)
    IN  Done([r.m EXCEPT !.err = g.err], c, n, r.data, r.data, g.heap)

\* ConvertOp before ConvertPrev.
OpConvertOwnFirst(m, c, n, D) ==
    The({ConvertPrev(o.m, c, n, o.data) : o \in {OpOwn([data |-> D, m |-> m], c, n)}})

\* CDataConversionOp::Convert.
OpConvert(m, c, n, D) == The({OpOwn(r, c, n) : r \in {ConvertPrev(m, c, n, D)}})

\* The virtual call of Convert on stage n of chain c.
Convert(m, c, n, D) ==
    CASE m.chain[c][n].kind = "AddMask" -> AddMaskConvert(m, c, n, D)
      [] m.chain[c][n].kind = "ToWorld" -> ToWorldConvert(m, c, n, D)
      [] m.chain[c][n].kind = "ToFlat"  -> ToFlatConvert(m, c, n, D)
      [] OTHER                          -> OpConvert(m, c, n, D)

(***************************************************************************)
(* Destructors.  A C++ destructor runs the body of the most derived class  *)
(* first and the body of CDataConversion, which deletes m_pPrevConv, last. *)
(***************************************************************************)
Event(ev, c, n, id) == [ev |-> ev, chain |-> c, idx |-> n, id |-> id]

Free(m, c, n, id) ==
    [m EXCEPT !.heap = MbufFree(@, id, <<c, n>>),
              !.dlog = Append(@, Event("free", c, n, id))]

\* SPData::ReleaseData.
ReleaseData(m, c, n, d) ==
    LET m1 == IF d.MilX # M_NULL THEN Free(m, c, n, d.MilX) ELSE m
    IN  IF d.MilZ # M_NULL THEN Free(m1, c, n, d.MilZ) ELSE m1

\* SPData::ReleaseMask.
ReleaseMask(m, c, n, d) ==
    IF d.MilValidMask # M_NULL THEN Free(m, c, n, d.MilValidMask) ELSE m

\* ~CDataConversionData releasing the mask as well as the data.
DerivedDtorsMaskToo(m, c, n) ==
    LET s == m.chain[c][n]
    IN  CASE s.kind = "AddMask" -> Free(m, c, n, s.m_MilValidMask)
          [] s.kind = "ToWorld" ->
                 ReleaseMask(ReleaseData(m, c, n, s.m_ConvertedData), c, n, s.m_ConvertedData)
          [] s.kind = "ToFlat"  ->
                 ReleaseMask(ReleaseData(ReleaseMask(m, c, n, s.m_ConvertedData),
                                         c, n, s.m_ConvertedData), c, n, s.m_ConvertedData)
          [] OTHER              -> m

\* The destructor bodies of the classes derived from CDataConversion.
DerivedDtors(m, c, n) ==
    LET s == m.chain[c][n]
    IN  CASE s.kind = "AddMask" -> Free(m, c, n, s.m_MilValidMask)
          [] s.kind = "ToWorld" -> ReleaseData(m, c, n, s.m_ConvertedData)
          [] s.kind = "ToFlat"  ->
                 ReleaseData(ReleaseMask(m, c, n, s.m_ConvertedData), c, n, s.m_ConvertedData)
          [] OTHER              -> m

RECURSIVE DeletePrevFirst(_, _, _)
\* The predecessor deleted before the stage's own buffers are released.
DeletePrevFirst(m, c, n) ==
    LET m0 == [m EXCEPT !.dlog = Append(@, Event("dtor", c, n, M_NULL))]
        m1 == IF n > 1 THEN DeletePrevFirst(m0, c, n - 1) ELSE m0
        m2 == DerivedDtors(m1, c, n)
    IN  [m2 EXCEPT !.dlog = Append(@, Event("end", c, n, M_NULL))]

RECURSIVE Delete(_, _, _)
\* delete of stage n of chain c: ~Derived, then ~CDataConversion.
Delete(m, c, n) ==
    LET m0 == [m EXCEPT !.dlog = Append(@, Event("dtor", c, n, M_NULL))]
        m1 == DerivedDtors(m0, c, n)
        m2 == IF n > 1 THEN Delete(m1, c, n - 1) ELSE m1
    IN  [m2 EXCEPT !.dlog = Append(@, Event("end", c, n, M_NULL))]

\* "if(p) delete p" on the pointer to chain c.
DeleteChain(m, c) ==
    IF m.chain[c] # <<>>
    THEN [Delete(m, c, Len(m.chain[c])) EXCEPT !.chain[c] = <<>>]
    ELSE m

(***************************************************************************)
(* The chains the program builds.                                          *)
(***************************************************************************)
\* CProfile3dPointsProcess's constructor.
CProfile3dPointsProcess(m, ProfileSize, NbProfiles, pcal) ==
    LET m1 == NewToWorld(m, "proc", ProfileSize, NbProfiles, pcal)
        m2 == NewToFlat(m1, "proc", ProfileSize, NbProfiles, "f32")
    IN  NewOp(m2, "proc", "ApplyInvalid")

\* The two flip conditions inverted.
BuildDigitizerDataConversionInverted(m, SizeX, SizeY, FlipPosition, FlipDistance) ==
    LET m1 == NewAddMask(m, "dig", SizeX, SizeY, INVALID_VALUE)
        m2 == IF ~FlipPosition THEN NewOp(m1, "dig", "FlipXVal") ELSE m1
    IN  IF ~FlipDistance THEN NewOp(m2, "dig", "FlipZVal") ELSE m2

\* The Z flip inserted before the X flip.
BuildDigitizerDataConversionZFirst(m, SizeX, SizeY, FlipPosition, FlipDistance) ==
    LET m1 == NewAddMask(m, "dig", SizeX, SizeY, INVALID_VALUE)
        m2 == IF FlipDistance THEN NewOp(m1, "dig", "FlipZVal") ELSE m1
    IN  IF FlipPosition THEN NewOp(m2, "dig", "FlipXVal") ELSE m2

\* The mask stage wrapped around the flips: the mask made after them.
BuildDigitizerDataConversionMaskLast(m, SizeX, SizeY, FlipPosition, FlipDistance) ==
    LET m1 == IF FlipPosition THEN NewOp(m, "dig", "FlipXVal") ELSE m
        m2 == IF FlipDistance THEN NewOp(m1, "dig", "FlipZVal") ELSE m1
    IN  NewAddMask(m2, "dig", SizeX, SizeY, INVALID_VALUE)

\* CMicroEpsilonToMIL::BuildDigitizerDataConversion.
BuildDigitizerDataConversion(m, SizeX, SizeY, FlipPosition, FlipDistance) ==
    LET m1 == NewAddMask(m, "dig", SizeX, SizeY, INVALID_VALUE)
        m2 == IF FlipPosition THEN NewOp(m1, "dig", "FlipXVal") ELSE m1
    IN  IF FlipDistance THEN NewOp(m2, "dig", "FlipZVal") ELSE m2

\* The converted data left empty when the pointer is null.
ConvertDataNoElse(m, c, D) ==
    IF m.chain[c] # <<>> THEN Convert(m, c, Len(m.chain[c]), D)
    ELSE [data |-> NullSPData, m |-> m]

\* "p ? p->Convert(Data) : Data" of CMicroEpsilonToMIL::MilInterface.
ConvertData(m, c, D) ==
    IF m.chain[c] # <<>> THEN Convert(m, c, Len(m.chain[c]), D) ELSE [data |-> D, m |-> m]

(***************************************************************************)
(* The profile processors.                                                 *)
(***************************************************************************)
\* mm per frame, in hundredths of a millimetre (0.05 in the program).
CONVEYOR_SPEED == 5

\* The Y coordinate taken from the column in the place of the profile.
ConvertedYOfColumn(WorldPosY, ConveyorSpeed, ProfileSize, NbProfiles) ==
    [i \in 1..(ProfileSize * NbProfiles) |->
        F32(WorldPosY + ((i - 1) % ProfileSize) * ConveyorSpeed)]

\* The Y coordinates CProfileDepthMapProcess's constructor computes.
ConvertedY(WorldPosY, ConveyorSpeed, ProfileSize, NbProfiles) ==
    [i \in 1..(ProfileSize * NbProfiles) |->
        F32(WorldPosY + ((i - 1) \div ProfileSize) * ConveyorSpeed)]

\* The first n elements at the host address of a buffer.
HostArray(h, id, n) == SubSeq(Get(h, id), 1, n)

\* The dots drawn without the MgraClear.
SingleDrawNoClear(r, NbPoints, st) ==
    LET X  == HostArray(r.m.heap, r.data.MilX, NbPoints)
        Z  == HostArray(r.m.heap, r.data.MilZ, NbPoints)
    IN  [m |-> r.m,
         graList |-> st.graList \o << [gra |-> "cal", x |-> <<>>, z |-> <<>>],
                                      [gra |-> "dots", x |-> X, z |-> Z] >>,
         cloudPut |-> st.cloudPut, nbPuts |-> st.nbPuts,
         m_NbFramesProcessed |-> st.m_NbFramesProcessed,
         procLog |-> <<"Convert", "McalDraw", "MgraDots">>]

\* CProfileSingleProcess::Process, after Convert has returned r.
SingleDraw(r, NbPoints, st) ==
    LET X  == HostArray(r.m.heap, r.data.MilX, NbPoints)
        Z  == HostArray(r.m.heap, r.data.MilZ, NbPoints)
    IN  [m |-> r.m,
         graList |-> << [gra |-> "cal", x |-> <<>>, z |-> <<>>],
                        [gra |-> "dots", x |-> X, z |-> Z] >>,
         cloudPut |-> st.cloudPut, nbPuts |-> st.nbPuts,
         m_NbFramesProcessed |-> st.m_NbFramesProcessed,
         procLog |-> <<"Convert", "MgraClear", "McalDraw", "MgraDots">>]

\* CProfileSingleProcess::Process.
SingleProcess(m, D, NbPoints, st) ==
    The({SingleDraw(r, NbPoints, st) : r \in {Convert(m, "proc", Len(m.chain["proc"]), D)}})

\* The depth map extracted before the frame is put in the container.
DepthMapExtractFirst(r, NbPoints, st) ==
    LET X  == HostArray(r.m.heap, r.data.MilX, NbPoints)
        Z  == HostArray(r.m.heap, r.data.MilZ, NbPoints)
    IN  [m |-> r.m,
         graList |-> st.graList,
         cloudPut |-> [label |-> 1, n |-> NbPoints, x |-> X, y |-> st.m_ConvertedY, z |-> Z],
         nbPuts |-> st.nbPuts + 1,
         m_NbFramesProcessed |-> st.m_NbFramesProcessed + 1,
         procLog |-> <<"Convert", "M3dmapExtract", "M3dmapPut", "m_NbFramesProcessed++">>]

\* CProfileDepthMapProcess::Process, after Convert has returned r.
DepthMapPut(r, NbPoints, st) ==
    LET X  == HostArray(r.m.heap, r.data.MilX, NbPoints)
        Z  == HostArray(r.m.heap, r.data.MilZ, NbPoints)
    IN  [m |-> r.m,
         graList |-> st.graList,
         cloudPut |-> [label |-> 1, n |-> NbPoints, x |-> X, y |-> st.m_ConvertedY, z |-> Z],
         nbPuts |-> st.nbPuts + 1,
         m_NbFramesProcessed |-> st.m_NbFramesProcessed + 1,
         procLog |-> <<"Convert", "M3dmapPut", "M3dmapExtract", "m_NbFramesProcessed++">>]

\* CProfileDepthMapProcess::Process.
DepthMapProcess(m, D, NbPoints, st) ==
    The({DepthMapPut(r, NbPoints, st) : r \in {Convert(m, "proc", Len(m.chain["proc"]), D)}})

\* The virtual call m_pProfileProcess->Process(ConvertedData).
Process(m, D, NbPoints, NbProfiles, st) ==
    IF NbProfiles = 1
    THEN SingleProcess(m, D, NbPoints, st)
    ELSE DepthMapProcess(m, D, NbPoints, st)

(***************************************************************************)
(* What the acquisition delivers.                                          *)
(***************************************************************************)
BaseSamples ==
    << [x |-> 0, z |-> 0], [x |-> 65535, z |-> 65535],
       [x |-> 100, z |-> 50], [x |-> 200, z |-> 300] >>

\* A profile of P points: the base samples, starting at one of them.
Row(shift, P) ==
    [x |-> [i \in 1..P |-> BaseSamples[((shift + i - 1) % 4) + 1].x],
     z |-> [i \in 1..P |-> BaseSamples[((shift + i - 1) % 4) + 1].z]]

\* A profile whose samples are all out of range.
InvalidRow(P) == [x |-> [i \in 1..P |-> i], z |-> [i \in 1..P |-> INVALID_VALUE]]

Rows(P) == {Row(0, P), Row(2, P), InvalidRow(P)}

Frames(P, N) == [1..N -> Rows(P)]

\* The X and Z of a frame, row by row.
FrameX(f, P, N) == [i \in 1..(P * N) |-> f[((i - 1) \div P) + 1].x[((i - 1) % P) + 1]]

FrameZ(f, P, N) == [i \in 1..(P * N) |-> f[((i - 1) \div P) + 1].z[((i - 1) % P) + 1]]

\* The container image of a frame: on each line the Z band, then the X band.
GrabData(f, P, N) ==
    [j \in 1..(2 * P * N) |->
        LET r == (j - 1) \div (2 * P)
            c == (j - 1) % (2 * P)
        IN  IF c < P THEN f[r + 1].z[c + 1] ELSE f[r + 1].x[c - P + 1]]

(***************************************************************************)
(* MosMain.                                                                *)
(***************************************************************************)
CurMachine ==
    [heap |-> heap,
     chain |-> [dig |-> m_pDataConversion, proc |-> m_pProcessProfileDataConversion],
     trace |-> trace, err |-> milErr, dlog |-> dlog]

SetMachine(m) ==
    /\ heap' = m.heap
    /\ m_pDataConversion' = m.chain["dig"]
    /\ m_pProcessProfileDataConversion' = m.chain["proc"]
    /\ trace' = m.trace
    /\ milErr' = m.err
    /\ dlog' = m.dlog

ProcState ==
    [graList |-> graList, cloudPut |-> cloudPut, nbPuts |-> nbPuts,
     m_NbFramesProcessed |-> m_NbFramesProcessed, m_ConvertedY |-> m_ConvertedY]

NoPut == [label |-> 0, n |-> 0, x |-> <<>>, y |-> <<>>, z |-> <<>>]

Init ==
    /\ pc = "start"
    /\ FlipPos \in BOOLEAN
    /\ FlipDist \in BOOLEAN
    /\ PCal \in PCals
    /\ m_SizeX = ContainerResolution
    /\ m_SizeY \in {1, NB_PROFILES_PER_GRAB}
    /\ heap = MbufAlloc2d(MbufAlloc2d(<<>>, 2 * m_SizeX, m_SizeY, "u16", <<"main", 0>>),
                          2 * m_SizeX, m_SizeY, "u16", <<"main", 0>>)
    /\ MilGrabBuffers = <<1, 2>>
    /\ m_pDataConversion = <<>>
    /\ m_pProcessProfileDataConversion = <<>>
    /\ trace = <<>>
    /\ milErr = 0
    /\ dlog = <<>>
    /\ rawIn = [x |-> <<>>, z |-> <<>>]
    /\ Data = NullSPData
    /\ ConvertedData = NullSPData
    /\ nHooks = 0
    /\ m_NbFramesProcessed = 0
    /\ m_ConvertedY = <<>>
    /\ cloudPut = NoPut
    /\ nbPuts = 0
    /\ graList = <<>>
    /\ procLog = <<>>
    /\ hookFrame = <<>>

\* new CProfileSingleProcess or new CProfileDepthMapProcess.
NewProfileProcess ==
    /\ pc = "start"
    /\ pc' = "process"
    /\ SetMachine(CProfile3dPointsProcess(CurMachine, m_SizeX, m_SizeY, PCal))
    /\ m_ConvertedY' = IF m_SizeY = 1 THEN <<>>
                       ELSE ConvertedY(0, CONVEYOR_SPEED, m_SizeX, m_SizeY)
    /\ m_NbFramesProcessed' = 0
    /\ UNCHANGED << hookFrame, FlipPos, FlipDist, PCal, m_SizeX, m_SizeY, MilGrabBuffers, rawIn,
                    Data, ConvertedData, nHooks, cloudPut, nbPuts, graList, procLog >>

\* CMicroEpsilonToMIL's constructor and BuildInterface.
BuildInterface ==
    /\ pc = "process"
    /\ pc' = "built"
    /\ SetMachine(BuildDigitizerDataConversion(CurMachine, m_SizeX, m_SizeY, FlipPos, FlipDist))
    /\ UNCHANGED << hookFrame, FlipPos, FlipDist, PCal, m_SizeX, m_SizeY, MilGrabBuffers, rawIn,
                    Data, ConvertedData, nHooks, m_NbFramesProcessed, m_ConvertedY,
                    cloudPut, nbPuts, graList, procLog >>

\* MdigProcess(M_START).
MdigProcessStart ==
    /\ pc = "built"
    /\ pc' = "grabbing"
    /\ UNCHANGED << hookFrame, heap, m_pDataConversion, m_pProcessProfileDataConversion, trace,
                    milErr, dlog, FlipPos, FlipDist, PCal, m_SizeX, m_SizeY,
                    MilGrabBuffers, rawIn, Data, ConvertedData, nHooks,
                    m_NbFramesProcessed, m_ConvertedY, cloudPut, nbPuts, graList, procLog >>

\* MdigProcess before it calls the hook: frame f is in the grab buffer cur, and
\* the grab buffer other is queued again, the camera writing to it (its pixels
\* are indeterminate and cleared here; the hook does not read them).
Grabbed(h, cur, other, f, SizeX, SizeY) ==
    Put(Put(h, other, [j \in 1..(2 * SizeX * SizeY) |-> 0]), cur, GrabData(f, SizeX, SizeY))

\* The two children released before Process is called.
MilInterfaceReleaseFirst(m0, MilGrabBuffer, SizeX, SizeY, k, st) ==
    LET h0  == m0.heap
        h1  == MbufChild2d(h0, MilGrabBuffer, 0, SizeX, SizeY, <<"hook", k>>)
        h2  == MbufChild2d(h1, MilGrabBuffer, SizeX, SizeX, SizeY, <<"hook", k>>)
        D   == [MilX |-> Len(h2), MilZ |-> Len(h1), MilValidMask |-> M_NULL]
    IN  The({ The({ [Data |-> D, ConvertedData |-> r.data, p |-> p, m |-> p.m] :
                    p \in {Process(ReleaseData(r.m, "hook", k, D), r.data,
                                   SizeX * SizeY, SizeY, st)} }) :
              r \in {ConvertData([m0 EXCEPT !.heap = h2, !.trace = <<>>], "dig", D)} })

\* CMicroEpsilonToMIL::MilInterface on the grab buffer MilGrabBuffer.
MilInterface(m0, MilGrabBuffer, SizeX, SizeY, k, st) ==
    LET h0  == m0.heap
        h1  == MbufChild2d(h0, MilGrabBuffer, 0, SizeX, SizeY, <<"hook", k>>)
        h2  == MbufChild2d(h1, MilGrabBuffer, SizeX, SizeX, SizeY, <<"hook", k>>)
        D   == [MilX |-> Len(h2), MilZ |-> Len(h1), MilValidMask |-> M_NULL]
    IN  The({ The({ [Data |-> D, ConvertedData |-> r.data, p |-> p,
                     m |-> ReleaseData(p.m, "hook", k, D)] :
                    p \in {Process(r.m, r.data, SizeX * SizeY, SizeY, st)} }) :
              r \in {ConvertData([m0 EXCEPT !.heap = h2, !.trace = <<>>], "dig", D)} })

\* MdigProcess's grab thread has a frame and calls the hook with it.  It calls
\* the hook for one frame at a time, after the call for the frame before has
\* returned.
MdigProcessCallHook ==
    /\ pc = "grabbing"
    /\ hookFrame = <<>>
    /\ nHooks < MaxFrames
    /\ hookFrame' \in Frames(m_SizeX, m_SizeY)
    /\ UNCHANGED << heap, m_pDataConversion, m_pProcessProfileDataConversion, trace,
                    milErr, dlog, pc, FlipPos, FlipDist, PCal, m_SizeX, m_SizeY,
                    MilGrabBuffers, rawIn, Data, ConvertedData, nHooks,
                    m_NbFramesProcessed, m_ConvertedY, cloudPut, nbPuts, graList, procLog >>

\* The hook, from its call to its return, on the frame it was called with.
MilInterfaceHook ==
    /\ hookFrame # <<>>
    /\ LET cur   == MilGrabBuffers[(nHooks % 2) + 1]
           other == MilGrabBuffers[((nHooks + 1) % 2) + 1]
           h     == Grabbed(heap, cur, other, hookFrame, m_SizeX, m_SizeY)
       IN  \E r \in {MilInterface([CurMachine EXCEPT !.heap = h], cur,
                                  m_SizeX, m_SizeY, nHooks + 1, ProcState)} :
              /\ SetMachine(r.m)
              /\ rawIn' = [x |-> FrameX(hookFrame, m_SizeX, m_SizeY),
                           z |-> FrameZ(hookFrame, m_SizeX, m_SizeY)]
              /\ Data' = r.Data
              /\ ConvertedData' = r.ConvertedData
              /\ graList' = r.p.graList
              /\ cloudPut' = r.p.cloudPut
              /\ nbPuts' = r.p.nbPuts
              /\ m_NbFramesProcessed' = r.p.m_NbFramesProcessed
              /\ procLog' = r.p.procLog
    /\ nHooks' = nHooks + 1
    /\ hookFrame' = <<>>
    /\ UNCHANGED << pc, FlipPos, FlipDist, PCal, m_SizeX, m_SizeY, MilGrabBuffers,
                    m_ConvertedY >>

\* MdigProcess(M_STOP): it returns once the hook call in progress has returned,
\* and no hook is called after it.
MdigProcessStop ==
    /\ pc = "grabbing"
    /\ hookFrame = <<>>
    /\ pc' = "stopped"
    /\ UNCHANGED << hookFrame, heap, m_pDataConversion, m_pProcessProfileDataConversion, trace,
                    milErr, dlog, FlipPos, FlipDist, PCal, m_SizeX, m_SizeY,
                    MilGrabBuffers, rawIn, Data, ConvertedData, nHooks,
                    m_NbFramesProcessed, m_ConvertedY, cloudPut, nbPuts, graList, procLog >>

\* delete pProfileProcess with no MdigProcess(M_STOP) before it.
DeleteProfileProcessNoStop ==
    /\ pc = "grabbing"
    /\ m_pProcessProfileDataConversion # <<>>
    /\ pc' = "deleted"
    /\ SetMachine(DeleteChain(CurMachine, "proc"))
    /\ UNCHANGED << hookFrame, FlipPos, FlipDist, PCal, m_SizeX, m_SizeY, MilGrabBuffers,
                    rawIn, Data, ConvertedData, nHooks, m_NbFramesProcessed, m_ConvertedY,
                    cloudPut, nbPuts, graList, procLog >>

\* delete pProfileProcess: CProfileProcess's destructor.
DeleteProfileProcess ==
    /\ pc = "stopped"
    /\ pc' = "deleted"
    /\ SetMachine(DeleteChain(CurMachine, "proc"))
    /\ UNCHANGED << hookFrame, FlipPos, FlipDist, PCal, m_SizeX, m_SizeY, MilGrabBuffers, rawIn,
                    Data, ConvertedData, nHooks, m_NbFramesProcessed, m_ConvertedY,
                    cloudPut, nbPuts, graList, procLog >>

\* CMicroEpsilonToMIL's destructor, at the end of the block.
DestroyInterface ==
    /\ pc = "deleted"
    /\ pc' = "destroyed"
    /\ SetMachine(DeleteChain(CurMachine, "dig"))
    /\ UNCHANGED << hookFrame, FlipPos, FlipDist, PCal, m_SizeX, m_SizeY, MilGrabBuffers, rawIn,
                    Data, ConvertedData, nHooks, m_NbFramesProcessed, m_ConvertedY,
                    cloudPut, nbPuts, graList, procLog >>

\* MbufFree of the two grab buffers.
FreeGrabBuffers ==
    /\ pc = "destroyed"
    /\ pc' = "done"
    /\ heap' = MbufFree(MbufFree(heap, MilGrabBuffers[2], <<"main", 0>>),
                        MilGrabBuffers[1], <<"main", 0>>)
    /\ UNCHANGED << hookFrame, m_pDataConversion, m_pProcessProfileDataConversion, trace,
                    milErr, dlog, FlipPos, FlipDist, PCal, m_SizeX, m_SizeY,
                    MilGrabBuffers, rawIn, Data, ConvertedData, nHooks,
                    m_NbFramesProcessed, m_ConvertedY, cloudPut, nbPuts, graList, procLog >>

Next ==
    \/ NewProfileProcess
    \/ BuildInterface
    \/ MdigProcessStart
    \/ MdigProcessCallHook
    \/ MilInterfaceHook
    \/ MdigProcessStop
    \/ DeleteProfileProcess
    \/ DestroyInterface
    \/ FreeGrabBuffers

Spec == Init /\ [][Next]_vars

(***************************************************************************)
(* A harness for the stage classes by themselves: any chain of stages,     *)
(* built by successive wrapping over two 16-bit buffers, converted and     *)
(* deleted as CMicroEpsilonToMIL does with its own chain.                  *)
(***************************************************************************)
\* The calibration the harness gives to a CDataConversionToWorld.
HarnessPCal == [WorldX |-> 5, WorldZ |-> -3, GrayLevelSX |-> 2, GrayLevelSZ |-> 3]

\* new of one stage that wraps the head of chain c.
NewStage(m, c, kind, sx, sy) ==
    CASE kind = "AddMask" -> NewAddMask(m, c, sx, sy, INVALID_VALUE)
      [] kind = "ToWorld" -> NewToWorld(m, c, sx, sy, HarnessPCal)
      [] kind = "ToFlat"  -> NewToFlat(m, c, sx, sy, "f32")
      [] OTHER            -> NewOp(m, c, kind)

RECURSIVE BuildChain(_, _, _, _, _)
BuildChain(m, c, kinds, sx, sy) ==
    IF kinds = <<>> THEN m
    ELSE BuildChain(NewStage(m, c, Head(kinds), sx, sy), c, Tail(kinds), sx, sy)

\* MbufGet copies pixels as they are stored: a CDataConversionToFlat of type
\* float is given float buffers, as in CProfile3dPointsProcess.  No stage
\* computes on the M_MAX that CDataConversionApplyInvalid writes: that stage
\* is the head, as in CProfile3dPointsProcess.
WellTyped(kinds) ==
    \A i \in 1..Len(kinds) :
        /\ kinds[i] = "ToFlat" => \E j \in 1..(i - 1) : kinds[j] = "ToWorld"
        /\ kinds[i] = "ApplyInvalid" => i = Len(kinds)

HarnessChains ==
    {k \in UNION {[1..n -> Kinds] : n \in 0..MaxChainLen} : WellTyped(k)}

\* Two 16-bit buffers of sx pixels holding the profile row.
HarnessHeap(row, sx) ==
    LET h1 == MbufAlloc2d(<<>>, sx, 1, "u16", <<"test", 0>>)
        h2 == MbufAlloc2d(h1, sx, 1, "u16", <<"test", 0>>)
    IN  Put(Put(h2, 1, row.x), 2, row.z)

\* The harness on the chain "dig" of the machine m, built over the two buffers.
HarnessInitOn(m, row, sx) ==
    /\ pc = "h_ready"
    /\ FlipPos = FALSE
    /\ FlipDist = FALSE
    /\ PCal = HarnessPCal
    /\ m_SizeX = sx
    /\ m_SizeY = 1
    /\ MilGrabBuffers = <<>>
    /\ heap = m.heap
    /\ m_pDataConversion = m.chain["dig"]
    /\ m_pProcessProfileDataConversion = <<>>
    /\ trace = <<>>
    /\ milErr = 0
    /\ dlog = <<>>
    /\ rawIn = row
    /\ Data = [MilX |-> 1, MilZ |-> 2, MilValidMask |-> M_NULL]
    /\ ConvertedData = NullSPData
    /\ nHooks = 0
    /\ m_NbFramesProcessed = 0
    /\ m_ConvertedY = <<>>
    /\ cloudPut = NoPut
    /\ nbPuts = 0
    /\ graList = <<>>
    /\ procLog = <<>>
    /\ hookFrame = <<>>

HarnessInit(kinds, row, sx) ==
    HarnessInitOn(BuildChain(Machine(HarnessHeap(row, sx), <<>>, <<>>), "dig", kinds, sx, 1),
                  row, sx)

InitChain ==
    \E kinds \in HarnessChains, row \in Rows(ContainerResolution) :
        HarnessInit(kinds, row, ContainerResolution)

\* New pixels are written to the two input buffers.
HLoad ==
    /\ pc = "h_ready"
    /\ nHooks > 0
    /\ nHooks < MaxCalls
    /\ \E row \in Rows(m_SizeX) :
          /\ row # rawIn
          /\ heap' = Put(Put(heap, Data.MilX, row.x), Data.MilZ, row.z)
          /\ rawIn' = row
    /\ UNCHANGED << hookFrame, m_pDataConversion, m_pProcessProfileDataConversion, trace, milErr,
                    dlog, pc, FlipPos, FlipDist, PCal, m_SizeX, m_SizeY, MilGrabBuffers,
                    Data, ConvertedData, nHooks, m_NbFramesProcessed, m_ConvertedY,
                    cloudPut, nbPuts, graList, procLog >>

\* "p ? p->Convert(Data) : Data" on the chain.
HConvert ==
    /\ pc = "h_ready"
    /\ nHooks < MaxCalls
    /\ LET r == ConvertData([CurMachine EXCEPT !.trace = <<>>], "dig", Data)
       IN  /\ SetMachine(r.m)
           /\ ConvertedData' = r.data
    /\ nHooks' = nHooks + 1
    /\ UNCHANGED << hookFrame, pc, FlipPos, FlipDist, PCal, m_SizeX, m_SizeY, MilGrabBuffers,
                    rawIn, Data, m_NbFramesProcessed, m_ConvertedY, cloudPut, nbPuts,
                    graList, procLog >>

\* "if(p) delete p" on the chain.
HDelete ==
    /\ pc = "h_ready"
    /\ pc' = "h_deleted"
    /\ SetMachine(DeleteChain(CurMachine, "dig"))
    /\ UNCHANGED << hookFrame, FlipPos, FlipDist, PCal, m_SizeX, m_SizeY, MilGrabBuffers, rawIn,
                    Data, ConvertedData, nHooks, m_NbFramesProcessed, m_ConvertedY,
                    cloudPut, nbPuts, graList, procLog >>

NextChain ==
    \/ HLoad
    \/ HConvert
    \/ HDelete

SpecChain == InitChain /\ [][NextChain]_vars

\* The chains of the stage harness whose stages are constructed each with a
\* ProfileSize of its own: the constructors take any size.
SizedChains ==
    { <<"AddMask", "ToWorld">>, <<"AddMask", "FlipXVal", "ToWorld">>,
      <<"ToWorld", "AddMask">> }

RECURSIVE BuildChainSized(_, _, _, _)
BuildChainSized(m, c, kinds, sizes) ==
    IF kinds = <<>> THEN m
    ELSE BuildChainSized(NewStage(m, c, Head(kinds), Head(sizes), 1), c,
                         Tail(kinds), Tail(sizes))

InitSized ==
    \E kinds \in SizedChains, row \in Rows(ContainerResolution) :
        \E sizes \in [1..Len(kinds) -> {ContainerResolution - 1, ContainerResolution}] :
            HarnessInitOn(BuildChainSized(Machine(HarnessHeap(row, ContainerResolution),
                                                  <<>>, <<>>), "dig", kinds, sizes),
                          row, ContainerResolution)

SpecSized == InitSized /\ [][NextChain]_vars

\* A flip stage alone, over one pixel: every 16-bit value, in the channel it flips.
InitFlip ==
    \/ \E v \in 0..MaxU16 : HarnessInit(<<"FlipXVal">>, [x |-> <<v>>, z |-> <<50>>], 1)
    \/ \E v \in 0..MaxU16 : HarnessInit(<<"FlipZVal">>, [x |-> <<100>>, z |-> <<v>>], 1)

NextFlip ==
    \/ HConvert
    \/ HDelete

SpecFlip == InitFlip /\ [][NextFlip]_vars

(***************************************************************************)
(* Properties.                                                             *)
(***************************************************************************)
TraceIdx(kind) == {k \in 1..Len(trace) : trace[k].kind = kind}

\* C1: one Convert on the head of a chain S1..Sn applies the transform of S1
\* first, then S2's, ..., then Sn's, each once, each to the SPData its
\* predecessor returned, the first to the SPData given to the head.
C1_ChainOrder ==
    (pc = "h_ready" /\ nHooks > 0) =>
        /\ Len(trace) = Len(m_pDataConversion)
        /\ \A k \in 1..Len(trace) :
              /\ trace[k].idx = k
              /\ trace[k].kind = m_pDataConversion[k].kind
              /\ trace[k].in = (IF k = 1 THEN Data ELSE trace[k - 1].out)
        /\ (trace # <<>> => ConvertedData = trace[Len(trace)].out)

C1_Witness ==
    /\ pc = "h_ready"
    /\ nHooks > 0
    /\ Len(trace) = 3
    /\ trace[1].kind = "FlipXVal"
    /\ trace[2].kind = "AddMask"
    /\ trace[3].kind = "FlipZVal"
    /\ trace[3].in = trace[2].out

\* C3: after the invalid-masking stage, in X and in Z, an element whose mask
\* entry is false is the M_MAX of the buffer's type and an element whose mask
\* entry is true is the value the calibration stage produced.
C3_InvalidMasking ==
    /\ (nHooks > 0 => (trace # <<>> /\ trace[Len(trace)].kind = "ApplyInvalid"))
    /\ \A k \in TraceIdx("ApplyInvalid") :
          LET a == trace[k]
              w == trace[CHOOSE j \in TraceIdx("ToWorld") : TRUE]
          IN  /\ Len(a.inMask) = Len(w.outX)
              /\ Len(a.outX) = Len(w.outX)
              /\ Len(a.outZ) = Len(w.outZ)
              /\ \A i \in 1..Len(a.outX) :
                    IF a.inMask[i] = 0
                    THEN /\ a.outX[i] = MaxOf(heap[a.out.MilX].type)
                         /\ a.outZ[i] = MaxOf(heap[a.out.MilZ].type)
                    ELSE /\ a.outX[i] = w.outX[i]
                         /\ a.outZ[i] = w.outZ[i]

C3_Witness ==
    /\ nHooks > 0
    /\ LET a == trace[Len(trace)]
       IN  /\ a.kind = "ApplyInvalid"
           /\ \E i, j \in 1..Len(a.inMask) :
                 /\ a.inMask[i] = 0
                 /\ a.outX[i] = FloatMax
                 /\ a.inMask[j] # 0
                 /\ a.outX[j] # FloatMax

\* C4: the mask stage returns a mask that is true at i exactly when the
\* upstream Z at i differs from the invalid value, and the X and Z it returns
\* are the upstream buffers, with their contents.
C4_MaskDerivation ==
    \A k \in TraceIdx("AddMask") :
        LET t == trace[k]
        IN  /\ Len(t.outMask) = Len(t.inZ)
            /\ \A i \in 1..Len(t.inZ) : (t.outMask[i] # 0) <=> (t.inZ[i] # INVALID_VALUE)
            /\ t.out.MilX = t.in.MilX
            /\ t.out.MilZ = t.in.MilZ
            /\ t.outX = t.inX
            /\ t.outZ = t.inZ

C4_Witness ==
    \E k \in TraceIdx("AddMask") :
        /\ \E i, j \in 1..Len(trace[k].inZ) :
              /\ trace[k].inZ[i] = INVALID_VALUE
              /\ trace[k].outMask[i] = 0
              /\ trace[k].inZ[j] # INVALID_VALUE
              /\ trace[k].outMask[j] # 0
        /\ trace[k].out.MilZ = trace[k].in.MilZ

\* C5: the calibration stage maps a raw r of X to r*scaleX + offsetX and a raw
\* r of Z to r*scaleZ + offsetZ, without clamping; with a zero scale every
\* output is the offset.
C5_Calibration ==
    \A k \in TraceIdx("ToWorld") :
        LET t == trace[k]
        IN  /\ Len(t.outX) = Len(t.inX)
            /\ Len(t.outZ) = Len(t.inZ)
            /\ \A i \in 1..Len(t.inX) :
                  /\ t.outX[i] = t.inX[i] * PCal.GrayLevelSX + PCal.WorldX
                  /\ PCal.GrayLevelSX = 0 => t.outX[i] = PCal.WorldX
            /\ \A i \in 1..Len(t.inZ) :
                  /\ t.outZ[i] = t.inZ[i] * PCal.GrayLevelSZ + PCal.WorldZ
                  /\ PCal.GrayLevelSZ = 0 => t.outZ[i] = PCal.WorldZ

C5_Witness ==
    /\ PCal.GrayLevelSX # PCal.GrayLevelSZ
    /\ PCal.WorldX # PCal.WorldZ
    /\ \E k \in TraceIdx("ToWorld") :
          \E i \in 1..Len(trace[k].inX) :
              /\ trace[k].inX[i] = MaxU16
              /\ trace[k].outX[i] > MaxU16
              /\ trace[k].outZ[i] # trace[k].outX[i]

\* C6: a flip stage applied twice to a buffer gives back the values it had:
\* 65535 - (65535 - v) = v for every 16-bit v, in X for the X flip and in Z for
\* the Z flip (one application gives 65535 - v and leaves the other channel).
C6_FlipTwice ==
    LET X    == Get(heap, Data.MilX)
        Z    == Get(heap, Data.MilZ)
        kind == trace[1].kind
    IN  /\ nHooks % 2 = 0 => (X = rawIn.x /\ Z = rawIn.z)
        /\ nHooks % 2 = 1 =>
              /\ kind = "FlipXVal" => (X[1] = MaxU16 - rawIn.x[1] /\ Z = rawIn.z)
              /\ kind = "FlipZVal" => (Z[1] = MaxU16 - rawIn.z[1] /\ X = rawIn.x)

C6_Witness ==
    /\ nHooks = 2
    /\ trace[1].kind = "FlipXVal"
    /\ rawIn.x = <<MaxU16>>
    /\ trace[1].inX = <<0>>
    /\ Get(heap, Data.MilX) = <<MaxU16>>

\* The 4-point profile of the end-to-end scenario has been processed, with the
\* invalid value 0, the identity calibration and no flip.
Scenario ==
    /\ nHooks > 0
    /\ m_SizeX = 4
    /\ m_SizeY = 1
    /\ ~FlipPos
    /\ ~FlipDist
    /\ PCal = [WorldX |-> 0, WorldZ |-> 0, GrayLevelSX |-> 1, GrayLevelSZ |-> 1]
    /\ rawIn = [x |-> <<0, 65535, 100, 200>>, z |-> <<0, 65535, 50, 300>>]

\* C7: in the end-to-end scenario the mask is [false, true, true, true], the
\* calibrated X before invalid-masking is [0, 65535, 100, 200], and after
\* invalid-masking X and Z are the invalid sentinel at index 0 and keep their
\* calibrated values at indices 1..3.
C7_EndToEnd ==
    Scenario =>
        LET mk == trace[CHOOSE k \in TraceIdx("AddMask") : TRUE]
            w  == trace[CHOOSE k \in TraceIdx("ToWorld") : TRUE]
            a  == trace[CHOOSE k \in TraceIdx("ApplyInvalid") : TRUE]
        IN  /\ [i \in 1..4 |-> mk.outMask[i] # 0] = <<FALSE, TRUE, TRUE, TRUE>>
            /\ w.outX = <<0, 65535, 100, 200>>
            /\ a.outX = <<MaxOf("f32"), 65535, 100, 200>>
            /\ a.outZ = <<MaxOf("f32"), 65535, 50, 300>>
            /\ a.outX = Get(heap, a.out.MilX)
            /\ a.outZ = Get(heap, a.out.MilZ)

C7_Witness ==
    /\ Scenario
    /\ pc = "grabbing"
    /\ Len(trace) = 4
    /\ graList # <<>>

\* C8: with a null m_pPrevConv ConvertPrev returns the SPData it was given
\* (same X, Z and mask, with their contents), and with a null chain the
\* converted data of the hook is the raw SPData, unchanged.
C8_NullIsIdentity ==
    [][ (pc = "h_ready" /\ nHooks' = nHooks + 1) =>
          IF m_pDataConversion = <<>>
          THEN /\ ConvertedData' = Data
               /\ heap' = heap
               /\ trace' = <<>>
          ELSE /\ trace'[1].idx = 1
               /\ trace'[1].in = Data
               /\ trace'[1].inX = Contents(heap, Data.MilX)
               /\ trace'[1].inZ = Contents(heap, Data.MilZ)
               /\ trace'[1].inMask = Contents(heap, Data.MilValidMask) ]_vars

C8_Witness ==
    /\ pc = "h_ready"
    /\ nHooks > 0
    /\ m_pDataConversion = <<>>
    /\ Data.MilX # M_NULL
    /\ ConvertedData = Data
    /\ Get(heap, ConvertedData.MilX) = rawIn.x

StageOwned(id) == heap[id].owner[1] \in {"dig", "proc"}

\* C9: on teardown of a chain every buffer a stage allocated is released once,
\* by that stage; a stage releases no buffer it did not allocate; no buffer is
\* released twice and none that a stage allocated is left unreleased.
C9_Teardown ==
    /\ \A id \in 1..Len(heap) :
          /\ heap[id].nfree <= 1
          /\ heap[id].nfree = 1 => heap[id].freedBy = <<heap[id].owner>>
          /\ heap[id].live <=> heap[id].nfree = 0
    /\ pc = "h_ready" => \A id \in 1..Len(heap) : heap[id].nfree = 0
    /\ pc = "h_deleted" =>
          \A id \in 1..Len(heap) : IF StageOwned(id) THEN heap[id].nfree = 1
                                  ELSE heap[id].nfree = 0

C9_Witness ==
    /\ pc = "h_deleted"
    /\ Len(trace) = 3
    /\ trace[1].kind = "AddMask"
    /\ trace[2].kind = "ToWorld"
    /\ trace[3].kind = "ToFlat"
    /\ trace[2].out.MilValidMask = trace[1].out.MilValidMask
    /\ heap[trace[1].out.MilValidMask].freedBy = << <<"dig", 1>> >>
    /\ Len(heap) = 8
    /\ \A id \in 3..8 : heap[id].nfree = 1

\* The buffers of a trace record that its stage returns as its own.
OwnIds(t) ==
    CASE t.kind = "AddMask" -> {t.out.MilValidMask}
      [] t.kind = "ToWorld" -> {t.out.MilX, t.out.MilZ}
      [] t.kind = "ToFlat"  -> {t.out.MilX, t.out.MilZ, t.out.MilValidMask}
      [] OTHER              -> {}

\* C10: the mask, calibration and flatten stages allocate their buffers at
\* construction and none during Convert: each Convert call on a stage returns
\* the buffers the stage allocated then, the same at every call, so that a call
\* overwrites what the call before it returned.
C10_AllocateOnce ==
    [][ (pc = "h_ready" /\ nHooks' = nHooks + 1) =>
          /\ Len(heap') = Len(heap)
          /\ \A k \in 1..Len(trace') :
                /\ trace'[k].nbufIn = Len(heap)
                /\ trace'[k].nbufOut = Len(heap)
                /\ \A id \in OwnIds(trace'[k]) :
                      /\ id \in 1..Len(heap)
                      /\ heap[id].owner = <<"dig", k>>
                /\ nHooks > 0 => OwnIds(trace'[k]) = OwnIds(trace[k])
          /\ nHooks > 0 => ConvertedData' = ConvertedData ]_vars

C10_Witness ==
    /\ pc = "h_ready"
    /\ nHooks = 2
    /\ Len(trace) = 3
    /\ trace[1].kind = "AddMask"
    /\ trace[2].kind = "ToWorld"
    /\ trace[3].kind = "ToFlat"
    /\ Cardinality(OwnIds(trace[1]) \cup OwnIds(trace[2]) \cup OwnIds(trace[3])) = 6
    /\ Len(heap) = 8

\* What the stages of a conversion produced, without the MIL_IDs.
TraceView(t) ==
    [k \in 1..Len(t) |-> [chain |-> t[k].chain, idx |-> t[k].idx, kind |-> t[k].kind,
                          outX |-> t[k].outX, outZ |-> t[k].outZ, outMask |-> t[k].outMask]]

\* The first hook invocation of a program with the same configuration, on the
\* frame whose X and Z are x and z.
FreshHook(x, z) ==
    LET f  == [i \in 1..m_SizeY |-> [x |-> SubSeq(x, (i - 1) * m_SizeX + 1, i * m_SizeX),
                                     z |-> SubSeq(z, (i - 1) * m_SizeX + 1, i * m_SizeX)]]
        h0 == MbufAlloc2d(MbufAlloc2d(<<>>, 2 * m_SizeX, m_SizeY, "u16", <<"main", 0>>),
                          2 * m_SizeX, m_SizeY, "u16", <<"main", 0>>)
        m1 == CProfile3dPointsProcess(Machine(h0, <<>>, <<>>), m_SizeX, m_SizeY, PCal)
        m2 == BuildDigitizerDataConversion(m1, m_SizeX, m_SizeY, FlipPos, FlipDist)
        st == [graList |-> <<>>, cloudPut |-> NoPut, nbPuts |-> 0, m_NbFramesProcessed |-> 0,
               m_ConvertedY |-> IF m_SizeY = 1 THEN <<>>
                                ELSE ConvertedY(0, CONVEYOR_SPEED, m_SizeX, m_SizeY)]
    IN  MilInterface([m2 EXCEPT !.heap = Grabbed(m2.heap, 1, 2, f, m_SizeX, m_SizeY)],
                     1, m_SizeX, m_SizeY, 1, st)

\* C11: the single-profile processor is stateless across frames: after any
\* number of earlier frames, the converted X, Z and mask of every stage and the
\* dots drawn for a frame are those a processor of the same configuration
\* gives for that frame as its first one.
C11_SingleStateless ==
    (m_SizeY = 1 /\ nHooks > 0 /\ pc = "grabbing") =>
        \A r \in {FreshHook(rawIn.x, rawIn.z)} :
            /\ TraceView(trace) = TraceView(r.m.trace)
            /\ graList = r.p.graList
            /\ Contents(heap, ConvertedData.MilValidMask)
                  = Contents(r.m.heap, r.ConvertedData.MilValidMask)

C11_Witness ==
    /\ m_SizeY = 1
    /\ pc = "grabbing"
    /\ nHooks = 2
    /\ rawIn.z = [i \in 1..m_SizeX |-> INVALID_VALUE]
    /\ Len(graList) = 2
    /\ graList[2].z = [i \in 1..m_SizeX |-> MaxOf("f32")]

\* The kinds of the stages of a chain, innermost first.
KindsOf(chain) == [k \in 1..Len(chain) |-> chain[k].kind]

DigKinds ==
    <<"AddMask">> \o (IF FlipPos THEN <<"FlipXVal">> ELSE <<>>)
                  \o (IF FlipDist THEN <<"FlipZVal">> ELSE <<>>)

ProcKinds == <<"ToWorld", "ToFlat", "ApplyInvalid">>

\* C12: the stage sequence is fixed at setup: while frames are processed the
\* two chains are mask-derivation, X flip iff FlipPos, Z flip iff FlipDist, and
\* calibration, flatten, invalid-masking; every hook invocation applies
\* exactly that sequence to its frame and leaves both chains as they were.
C12_FixedSequence ==
    [][ /\ pc' \in {"built", "grabbing", "stopped"} =>
              /\ KindsOf(m_pDataConversion') = DigKinds
              /\ KindsOf(m_pProcessProfileDataConversion') = ProcKinds
        /\ nHooks' = nHooks + 1 =>
              /\ KindsOf(m_pDataConversion) = DigKinds
              /\ KindsOf(m_pProcessProfileDataConversion) = ProcKinds
              /\ KindsOf(trace') = DigKinds \o ProcKinds
              /\ \A k \in 1..Len(trace') :
                    trace'[k].idx = (IF k <= Len(DigKinds) THEN k ELSE k - Len(DigKinds)) ]_vars

C12_Witness ==
    /\ pc = "grabbing"
    /\ nHooks = 2
    /\ FlipPos
    /\ FlipDist
    /\ KindsOf(trace) = <<"AddMask", "FlipXVal", "FlipZVal", "ToWorld", "ToFlat", "ApplyInvalid">>
    /\ KindsOf(m_pDataConversion) = <<"AddMask", "FlipXVal", "FlipZVal">>

\* Width and height of a buffer.
Shape(id) == <<heap[id].sx, heap[id].sy>>

\* X and Z of an SPData have one shape, and so has its mask if it has one
\* (or, for a mask of another dimension, the same number of elements).
SameShape(d, x, z, mask) ==
    /\ Shape(d.MilX) = Shape(d.MilZ)
    /\ Len(x) = heap[d.MilX].sx * heap[d.MilX].sy
    /\ Len(z) = Len(x)
    /\ d.MilValidMask # M_NULL =>
          /\ heap[d.MilValidMask].sx * heap[d.MilValidMask].sy = Len(x)
          /\ Len(mask) = Len(x)

\* C13: for every frame, the SPData the hook makes and the SPData each stage
\* of the two chains returns have X and Z of the same width and height, and
\* a mask, when there is one, of as many elements as X and Z.
C13_SameShape ==
    (nHooks > 0 /\ pc = "grabbing") =>
        /\ SameShape(Data, rawIn.x, rawIn.z, <<>>)
        /\ \A k \in 1..Len(trace) :
              SameShape(trace[k].out, trace[k].outX, trace[k].outZ, trace[k].outMask)
        /\ Len(rawIn.x) = m_SizeX * m_SizeY

C13_Witness ==
    /\ pc = "grabbing"
    /\ nHooks > 0
    /\ m_SizeY = NB_PROFILES_PER_GRAB
    /\ Len(trace) >= 4
    /\ Shape(trace[1].out.MilValidMask) = <<m_SizeX, m_SizeY>>
    /\ Shape(ConvertedData.MilX) = <<m_SizeX, m_SizeY>>
    /\ Shape(trace[Len(trace)].out.MilX) = <<m_SizeX * m_SizeY, 1>>
    /\ Shape(trace[Len(trace)].out.MilValidMask) = <<m_SizeX * m_SizeY, 1>>

\* The destructor calls in a destructor log.
Dtors(log) == {k \in 1..Len(log) : log[k].ev = "dtor"}

StageSize(s) ==
    CASE s.kind = "AddMask" -> heap[s.m_MilValidMask].sx * heap[s.m_MilValidMask].sy
      [] s.kind \in {"ToWorld", "ToFlat"} ->
             heap[s.m_ConvertedData.MilX].sx * heap[s.m_ConvertedData.MilX].sy
      [] OTHER -> 0

\* Two stages of the chain were constructed with different sizes.
Mismatched(chain) ==
    \E i, j \in 1..Len(chain) :
        /\ StageSize(chain[i]) # 0
        /\ StageSize(chain[j]) # 0
        /\ StageSize(chain[i]) # StageSize(chain[j])

\* C15: a chain whose stages do not have the same shape is refused at
\* construction: no Convert ever runs on such a chain.
C15_ConfigDefectFatal ==
    Mismatched(m_pDataConversion) => (nHooks = 0 /\ trace = <<>>)

\* The steps of a Process call of the processor in use.
ProcessSteps ==
    IF m_SizeY = 1 THEN <<"Convert", "MgraClear", "McalDraw", "MgraDots">>
    ELSE <<"Convert", "M3dmapPut", "M3dmapExtract", "m_NbFramesProcessed++">>

\* C16: a frame with invalid samples, all of them included, is converted and
\* processed to completion like any other frame, with no MIL error: the samples
\* whose raw Z is the invalid value are those with a false mask entry, and
\* invalid-masking leaves the sentinel in X and Z for them.
C16_InvalidNotError ==
    (nHooks > 0 /\ pc = "grabbing") =>
        LET mk   == trace[CHOOSE k \in TraceIdx("AddMask") : TRUE]
            last == trace[Len(trace)]
        IN  /\ milErr = 0
            /\ KindsOf(trace) = DigKinds \o ProcKinds
            /\ procLog = ProcessSteps
            /\ m_SizeY > 1 => (nbPuts = nHooks /\ cloudPut.x = last.outX /\ cloudPut.z = last.outZ)
            /\ \A i \in 1..Len(rawIn.z) :
                  /\ mk.outMask[i] = 0 <=> rawIn.z[i] = INVALID_VALUE
                  /\ last.outMask[i] = mk.outMask[i]
                  /\ rawIn.z[i] = INVALID_VALUE =>
                        (last.outX[i] = MaxOf("f32") /\ last.outZ[i] = MaxOf("f32"))

C16_Witness ==
    /\ pc = "grabbing"
    /\ nHooks = 2
    /\ m_SizeY = NB_PROFILES_PER_GRAB
    /\ \A i \in 1..Len(rawIn.z) : rawIn.z[i] = INVALID_VALUE
    /\ milErr = 0
    /\ nbPuts = 2
    /\ cloudPut.z = [i \in 1..(m_SizeX * m_SizeY) |-> MaxOf("f32")]

\* The positions in the destructor log of the events ev of stage n.
DEvents(ev, n) == {k \in 1..Len(dlog) : dlog[k].ev = ev /\ dlog[k].idx = n}

\* Every event of the set P is before every event of the set Q.
Before(P, Q) == \A p \in P, q \in Q : p < q

\* The length of the deleted chain: the first destructor called is the head's.
DeletedLen == IF dlog = <<>> THEN 0 ELSE dlog[1].idx

\* Every stage of the deleted chain was destroyed, once.
EachOnce(len) ==
    /\ \A n \in 1..len : Cardinality(DEvents("dtor", n)) = 1
                         /\ Cardinality(DEvents("end", n)) = 1
    /\ \A k \in 1..Len(dlog) : dlog[k].idx \in 1..len

\* C17 (as claimed): deleting the head destroys every stage once, and the
\* storage of a stage's predecessor is released before the stage's own.
C17_TailFirst ==
    pc = "h_deleted" =>
        /\ EachOnce(DeletedLen)
        /\ \A n \in 2..DeletedLen : Before(DEvents("free", n - 1), DEvents("free", n))

\* C17 (amended): deleting the head destroys every stage once; the destructor
\* of a stage releases the stage's own storage first and then deletes the
\* predecessor, whose destruction ends before the stage's own ends: storage
\* is released from the head to the innermost stage.
C17_HeadFirst ==
    pc = "h_deleted" =>
        /\ EachOnce(DeletedLen)
        /\ DeletedLen = 0 <=> dlog = <<>>
        /\ \A n \in 2..DeletedLen :
              /\ Before(DEvents("dtor", n), DEvents("free", n))
              /\ Before(DEvents("free", n), DEvents("dtor", n - 1))
              /\ Before(DEvents("free", n), DEvents("free", n - 1))
              /\ Before(DEvents("end", n - 1), DEvents("end", n))

C17_Witness ==
    /\ pc = "h_deleted"
    /\ nHooks > 0
    /\ KindsOf(trace) = <<"AddMask", "ToWorld", "ToFlat">>
    /\ Cardinality(DEvents("free", 1)) = 1
    /\ Cardinality(DEvents("free", 2)) = 2
    /\ Cardinality(DEvents("free", 3)) = 3
    /\ dlog[1] = Event("dtor", "dig", 3, M_NULL)
    /\ dlog[Len(dlog)] = Event("end", "dig", 3, M_NULL)

\* C18: in the depth-map processor the Y of the sample at column x of
\* profile y is WorldPosY + y * ConveyorSpeed (WorldPosY is 0 in MosMain), the
\* same for every column; the array is computed at construction, no Process
\* call changes it, and every M3dmapPut is given it.
C18_YCoordinates ==
    (m_SizeY > 1 /\ pc # "start") =>
        /\ Len(m_ConvertedY) = m_SizeX * m_SizeY
        /\ \A y \in 0..(m_SizeY - 1) : \A x \in 0..(m_SizeX - 1) :
              m_ConvertedY[x + y * m_SizeX + 1] = 0 + y * CONVEYOR_SPEED
        /\ nbPuts > 0 => (cloudPut.y = m_ConvertedY /\ cloudPut.n = Len(m_ConvertedY))

C18_Witness ==
    /\ m_SizeY = NB_PROFILES_PER_GRAB
    /\ pc = "grabbing"
    /\ nHooks = 2
    /\ nbPuts = 2
    /\ cloudPut.y[1] = 0
    /\ cloudPut.y[m_SizeX] = 0
    /\ cloudPut.y[m_SizeX + 1] = CONVEYOR_SPEED
    /\ cloudPut.y[m_SizeX * m_SizeY] = (m_SizeY - 1) * CONVEYOR_SPEED

Dots == {k \in 1..Len(graList) : graList[k].gra = "dots"}

\* C20: after a Process call of the single-profile processor the graphic
\* list holds the dots of that frame only: one MgraDots of m_NbPoints dots,
\* at the converted X and Z of the frame, the samples with a false mask entry
\* included, at the sentinel.
C20_ClearAndRedraw ==
    (m_SizeY = 1 /\ nHooks > 0) =>
        LET last == trace[Len(trace)]
        IN  /\ procLog = <<"Convert", "MgraClear", "McalDraw", "MgraDots">>
            /\ Cardinality(Dots) = 1
            /\ Len(graList) = 2
            /\ \A k \in Dots :
                  /\ Len(graList[k].x) = m_SizeX
                  /\ Len(graList[k].z) = m_SizeX
                  /\ graList[k].x = last.outX
                  /\ graList[k].z = last.outZ
                  /\ \A i \in 1..m_SizeX :
                        last.outMask[i] = 0 =>
                            (graList[k].x[i] = MaxOf("f32") /\ graList[k].z[i] = MaxOf("f32"))

C20_Witness ==
    /\ m_SizeY = 1
    /\ pc = "grabbing"
    /\ nHooks = 2
    /\ rawIn.z[1] = INVALID_VALUE
    /\ rawIn.z[2] # INVALID_VALUE
    /\ Len(graList) = 2
    /\ graList[2].gra = "dots"
    /\ graList[2].z[1] = MaxOf("f32")
    /\ graList[2].z[2] # MaxOf("f32")

\* C21: the Convert of the flatten stage completes without a MIL error on
\* any upstream SPData: its X and Z are 1-D and hold the upstream values in
\* row-major order, its mask holds the upstream mask if there is one, and no
\* mask is read from an upstream SPData that has none.
C21_Flatten ==
    \A k \in TraceIdx("ToFlat") :
        LET t == trace[k]
        IN  /\ Shape(t.out.MilX) = <<Len(t.inX), 1>>
            /\ Shape(t.out.MilZ) = <<Len(t.inZ), 1>>
            /\ t.outX = t.inX
            /\ t.outZ = t.inZ
            /\ t.in.MilValidMask # M_NULL => t.outMask = t.inMask
            /\ milErr = 0

\* C22: the calibration stage writes only to its own two float buffers: its
\* Convert changes no other buffer, the upstream X and Z among them, returns
\* its own X and Z, and returns as mask the very buffer its predecessor
\* returned, with the contents it had.
C22_WritesOwnOnly ==
    \A k \in TraceIdx("ToWorld") :
        LET t   == trace[k]
            own == {t.out.MilX, t.out.MilZ}
        IN  /\ t.wrote \subseteq own
            /\ own \cap {t.in.MilX, t.in.MilZ} = {}
            /\ \A id \in own : /\ heap[id].owner = <<t.chain, t.idx>>
                               /\ heap[id].type = "f32"
            /\ t.nbufOut = t.nbufIn
            /\ t.out.MilValidMask = t.in.MilValidMask
            /\ t.outMask = t.inMask

\* A calibration that changed both of its buffers, on an upstream SPData that
\* has a mask with a valid and an invalid sample.
C22_Witness ==
    \E k \in TraceIdx("ToWorld") :
        LET t == trace[k]
        IN  /\ t.wrote = {t.out.MilX, t.out.MilZ}
            /\ t.in.MilValidMask # M_NULL
            /\ \E i, j \in 1..Len(t.outMask) : t.outMask[i] = 0 /\ t.outMask[j] # 0
            /\ t.outX # t.inX

GrabBufferIds == {MilGrabBuffers[i] : i \in 1..Len(MilGrabBuffers)}

\* C23: a flip stage works in place and allocates nothing: it returns the X, Z
\* and mask buffers its predecessor returned; each element of the channel it
\* flips becomes 65535 minus its value, the other channel and the mask keep
\* their contents; and the one buffer written is the grab buffer the X and Z
\* views are children of.
C23_FlipInPlace ==
    \A k \in TraceIdx("FlipXVal") \cup TraceIdx("FlipZVal") :
        LET t == trace[k]
            Flipped(v) == [i \in 1..Len(v) |-> MaxU16 - v[i]]
        IN  /\ t.out = t.in
            /\ t.nbufOut = t.nbufIn
            /\ t.outMask = t.inMask
            /\ t.kind = "FlipXVal" => (t.outX = Flipped(t.inX) /\ t.outZ = t.inZ)
            /\ t.kind = "FlipZVal" => (t.outZ = Flipped(t.inZ) /\ t.outX = t.inX)
            /\ heap[t.in.MilX].parent \in GrabBufferIds
            /\ heap[t.in.MilZ].parent = heap[t.in.MilX].parent
            /\ t.wrote = {heap[t.in.MilX].parent}

\* Both flips have run on a frame, after a mask with a valid and an invalid
\* sample was made, and the X flip changed a value to another one.
C23_Witness ==
    /\ TraceIdx("FlipXVal") # {}
    /\ \E k \in TraceIdx("FlipZVal") :
          LET t == trace[k]
          IN  /\ t.outZ # t.inZ
              /\ t.outX[1] # rawIn.x[1]
              /\ \E i, j \in 1..Len(t.outMask) : t.outMask[i] = 0 /\ t.outMask[j] # 0
              /\ Get(heap, heap[t.in.MilZ].parent) = t.outZ \o t.outX

\* The mask that marks the samples of a raw Z that differ from the sentinel.
MaskOfRawZ(z) == [i \in 1..Len(z) |-> IF z[i] # INVALID_VALUE THEN MaskTrue ELSE 0]

\* The records the digitizer chain left in the trace.
DigTrace == {k \in 1..Len(trace) : trace[k].chain = "dig"}

\* C24: in the assembled pipeline the mask of a frame is made from the raw Z,
\* before any flip: whatever the flip configuration, the mask the digitizer
\* chain returns and the mask applied by invalid-masking mark sample i exactly
\* when the raw Z at i is not 0.  With the Z flip a raw 0 is invalid although
\* the chain returns 65535 for it, and a raw 65535 is valid although the chain
\* returns 0 for it.
C24_MaskFromRawZ ==
    nHooks > 0 =>
        /\ DigTrace # {}
        /\ \A k \in TraceIdx("ApplyInvalid") : trace[k].inMask = MaskOfRawZ(rawIn.z)
        /\ \A k \in DigTrace :
              k + 1 \notin DigTrace =>
                 /\ trace[k].outMask = MaskOfRawZ(rawIn.z)
                 /\ \A i \in 1..Len(rawIn.z) :
                       trace[k].outZ[i] = IF FlipDist THEN MaxU16 - rawIn.z[i]
                                          ELSE rawIn.z[i]

\* A frame with a raw Z of 0 and a raw Z of 65535 has gone through the Z flip:
\* the first is returned as 65535 and masked out, the second as 0 and valid.
C24_Witness ==
    /\ nHooks > 0
    /\ FlipDist
    /\ \E k \in TraceIdx("FlipZVal") :
          \E i, j \in 1..Len(rawIn.z) :
              /\ rawIn.z[i] = 0
              /\ trace[k].outZ[i] = MaxU16
              /\ trace[k].outMask[i] = 0
              /\ rawIn.z[j] = MaxU16
              /\ trace[k].outZ[j] = INVALID_VALUE
              /\ trace[k].outMask[j] = MaskTrue

\* The child buffers of the heap h.
Children(h) == {id \in 1..Len(h) : h[id].parent # M_NULL}

\* C25: every hook invocation creates exactly two child buffers, the Z view and
\* the X view of the grabbed buffer, and releases each of them once, after
\* every stage of Process has read live buffers; after any step no child
\* buffer is live; and the hook releases no other buffer: every buffer that
\* existed before the hook, the mask and the converted buffers among them, is
\* as live and as often released after it as before.
C25_HookChildren ==
    [][ /\ \A id \in Children(heap') : ~heap'[id].live
        /\ nHooks' = nHooks + 1 =>
              LET z   == Len(heap) + 1
                  x   == Len(heap) + 2
                  by  == <<"hook", nHooks'>>
                  cur == MilGrabBuffers[(nHooks % 2) + 1]
              IN  /\ Len(heap') = Len(heap) + 2
                  /\ Data' = [MilX |-> x, MilZ |-> z, MilValidMask |-> M_NULL]
                  /\ heap'[z].parent = cur /\ heap'[z].offX = 0
                  /\ heap'[x].parent = cur /\ heap'[x].offX = m_SizeX
                  /\ \A id \in {z, x} : /\ heap'[id].owner = by
                                        /\ heap'[id].nfree = 1
                                        /\ heap'[id].freedBy = <<by>>
                  /\ \A k \in 1..Len(trace') : trace'[k].inLive
                  /\ dlog' = dlog \o <<Event("free", "hook", nHooks', x),
                                       Event("free", "hook", nHooks', z)>>
                  /\ \A id \in 1..Len(heap) : /\ heap'[id].live = heap[id].live
                                              /\ heap'[id].nfree = heap[id].nfree
                  /\ \A id \in {ConvertedData'.MilValidMask}
                               \cup UNION {OwnIds(trace'[k]) : k \in 1..Len(trace')} :
                        heap'[id].live /\ heap'[id].nfree = 0 ]_vars

\* Two hook invocations have returned: four children were made, none is live,
\* each was released once, and the mask and the buffers of the stages are live.
C25_Witness ==
    /\ nHooks = 2
    /\ pc = "grabbing"
    /\ Cardinality(Children(heap)) = 4
    /\ \A id \in Children(heap) : ~heap[id].live /\ heap[id].nfree = 1
    /\ heap[ConvertedData.MilValidMask].live
    /\ \E k \in TraceIdx("ToFlat") : \A id \in OwnIds(trace[k]) : heap[id].live
    /\ \E k \in TraceIdx("ToWorld") :
          /\ trace[k].in.MilX = Data.MilX
          /\ trace[k].in.MilZ = Data.MilZ
          /\ trace[k].inLive

====
